---- MODULE Spec2Model ----
(***************************************************************************)
(* Model of the helper get_ligand_cif of                                   *)
(* spring_school_2024/pdbeccdutils.ipynb: path derivation, one GET, status *)
(* validation, local write.  Strings are sequences of one-character        *)
(* strings so that indexing (ligand_id[0], ligand_id[-1]) and os.path.join *)
(* are computed as Python computes them.                                   *)
(***************************************************************************)
EXTENDS Integers, Sequences, FiniteSets, TLC

\* ---- bounds ------------------------------------------------------------
MaxIdLen == 2
MaxCalls == 2

\* ---- strings -----------------------------------------------------------
Alphabet == {"H", "e"}

Last(s) == s[Len(s)]

StartsWithSep(s) == Len(s) > 0 /\ s[1] = "/"

EndsWithSep(s) == Len(s) > 0 /\ Last(s) = "/"

\* ---- module-level constants of the notebook ----------------------------
PDBECHEM_URL == <<"h", "t", "t", "p", "s", ":", "/", "/", "f", "t", "p", ".", "e", "b", "i", ".", "a", "c", ".", "u", "k", "/", "p", "u", "b", "/", "d", "a", "t", "a", "b", "a", "s", "e", "s", "/", "m", "s", "d", "/", "p", "d", "b", "e", "c", "h", "e", "m", "_", "v", "2">>

CCD == [name |-> "CCD", value |-> <<"c", "c", "d">>, hasValue |-> TRUE]

PRD == [name |-> "PRD", value |-> <<"p", "r", "d">>, hasValue |-> TRUE]

CLC == [name |-> "CLC", value |-> <<"c", "l", "c">>, hasValue |-> TRUE]

\* class ligandType(Enum)
ligandType == {CCD, PRD, CLC}

\* Arguments a caller can pass that are not members of ligandType: an object
\* whose .value matches no case, and an object without .value (a plain str).
ForeignTypes == {[name |-> "XYZ", value |-> <<"x", "y", "z">>, hasValue |-> TRUE], [name |-> "str", value |-> <<>>, hasValue |-> FALSE]}

\* os.getcwd(): an absolute directory, constant across the notebook's calls
CWD == <<"/", "c", "w", "d">>

\* ---- inputs ------------------------------------------------------------
RECURSIVE StringsOfLen(_)
StringsOfLen(n) == IF n = 0 THEN {<<>>} ELSE {Append(s, c) : s \in StringsOfLen(n - 1), c \in Alphabet}

Identifiers == UNION {StringsOfLen(n) : n \in 1..MaxIdLen}

\* every str a caller can pass, the empty one included
IdArgs == Identifiers \cup {<<>>}

TypeArgs == ligandType \cup ForeignTypes

\* response bodies: what the archive serves with 200, and an error page
Payloads == {<<7>>, <<7, 8>>}

ErrorBody == <<4, 0, 4>>

\* status/body pairs the server can answer with
Responses == {[received |-> TRUE, status |-> 200, content |-> p] : p \in Payloads} \cup {[received |-> TRUE, status |-> 206, content |-> <<7>>], [received |-> TRUE, status |-> 404, content |-> ErrorBody]}

NoResponse == [received |-> FALSE, status |-> 0, content |-> <<>>]

\* ---- pure helpers of the code -----------------------------------------
\* posixpath.join, one step: an absolute component discards what precedes
os_path_join2(path, b) == IF StartsWithSep(b) THEN b ELSE IF path = <<>> \/ EndsWithSep(path) THEN path \o b ELSE path \o <<"/">> \o b

\* mutant: plain concatenation, the separator forgotten
os_path_join_nosep(a, b, c) == a \o b \o c

os_path_join(a, b, c) == os_path_join2(os_path_join2(a, b), c)

\* f"{ligand_id}.cif"
CifName(ligand_id) == ligand_id \o <<".", "c", "i", "f">>

\* mutant: every category shards by the first character
ShardCharFirst(ligand_id, value) == <<ligand_id[1]>>

\* ligand_id[0] in case "ccd", ligand_id[-1] in cases "prd" and "clc"
ShardChar(ligand_id, value) == IF value = CCD.value THEN <<ligand_id[1]>> ELSE <<Last(ligand_id)>>

Unbound == [bound |-> FALSE, val |-> <<>>]

\* mutant: a default case derives a path for any value
LigandDirDefault(ligand_id, value) == [bound |-> TRUE, val |-> os_path_join(value, ShardChar(ligand_id, value), ligand_id)]

\* the match statement: the value of ligand_dir after it, for a non-empty id
LigandDir(ligand_id, value) == IF value \in {CCD.value, PRD.value, CLC.value} THEN [bound |-> TRUE, val |-> os_path_join(value, ShardChar(ligand_id, value), ligand_id)] ELSE Unbound

\* ligand_cif_path
LigandCifPath(ligand_dir, ligand_id) == os_path_join(PDBECHEM_URL, ligand_dir, CifName(ligand_id))

\* mutant: the local file is named after the first character only
LigandCifFileFirst(ligand_id) == os_path_join2(CWD, CifName(<<ligand_id[1]>>))

\* ligand_cif_file
LigandCifFile(ligand_id) == os_path_join2(CWD, CifName(ligand_id))

\* mutant: any 2xx status is accepted
StatusOk2xx(status) == status >= 200 /\ status < 300

\* assert response.status_code == 200
StatusOk(status) == status = 200

\* mutant: a bare except
CaughtBare(kind, inTry) == inTry

\* try ... except AssertionError
Caught(kind, inTry) == inTry /\ kind = "AssertionError"

\* str(ligand_type) as the f-string formats it
TypeStr(ligand_type) == <<"ligandType", ".", ligand_type.name>>

\* the message printed by the except branch
Diagnostic(ligand_id, ligand_type) == <<"Couldn't find the file. Check if ", ligand_id, " & ", TypeStr(ligand_type), " are valid, if so try again">>

\* mutant: append mode
OpenAb(old) == IF old.exists THEN old ELSE [exists |-> TRUE, data |-> <<>>]

\* open(ligand_cif_file, "wb"): the file exists and is empty
OpenWb(old) == [exists |-> TRUE, data |-> <<>>]

\* mutant: the last byte is lost
FhWriteShort(cur, content) == [exists |-> TRUE, data |-> cur.data \o SubSeq(content, 1, Len(content) - 1)]

\* fh.write(response.content) at the position open left
FhWrite(cur, content) == [exists |-> TRUE, data |-> cur.data \o content]

\* what a write that fails part-way can leave behind
StrictPrefixes(content) == {SubSeq(content, 1, k) : k \in 0..(Len(content) - 1)}

\* ---- the file namespace -----------------------------------------------
OtherFile == <<"/", "c", "w", "d", "/", "h", "e", "m", ".", "s", "v", "g">>

FilePaths == {CWD \o <<"/">> \o id \o <<".", "c", "i", "f">> : id \in Identifiers} \cup {OtherFile}

NoFile == [exists |-> FALSE, data |-> <<>>]

NoPath == [isNone |-> TRUE, val |-> <<>>]

NoFetch == [some |-> FALSE, payload |-> <<>>, data |-> <<>>, path |-> <<>>]

\* ---- state -------------------------------------------------------------
VARIABLES pc, ligand_id, ligand_type, ligand_dir, ligand_cif_path, response, ligand_cif_file, ret, exc, stdout, files, raised, requests, events, files0, lastOk, torn, ncalls

vars == <<pc, ligand_id, ligand_type, ligand_dir, ligand_cif_path, response, ligand_cif_file, ret, exc, stdout, files, raised, requests, events, files0, lastOk, torn, ncalls>>

Init ==
    /\ pc = "idle"
    /\ ligand_id = <<>>
    /\ ligand_type = CCD
    /\ ligand_dir = Unbound
    /\ ligand_cif_path = <<>>
    /\ response = NoResponse
    /\ ligand_cif_file = <<>>
    /\ ret = NoPath
    /\ exc = "None"
    /\ stdout = <<>>
    /\ files = [f \in FilePaths |-> IF f = OtherFile THEN [exists |-> TRUE, data |-> <<9>>] ELSE NoFile]
    /\ raised = "None"
    /\ requests = <<>>
    /\ events = <<>>
    /\ files0 = files
    /\ lastOk = [id \in Identifiers |-> NoFetch]
    /\ torn = {}
    /\ ncalls = 0

\* An exception of the given kind leaves the step: to the except branch if the
\* handler catches it, out of the function otherwise.
Raise(kind, inTry) ==
    /\ raised' = kind
    /\ IF Caught(kind, inTry)
         THEN pc' = "except" /\ exc' = exc
         ELSE pc' = "done" /\ exc' = kind

\* The successful fetch the finished call has made, if any.
FinishedFetch == [some |-> TRUE, payload |-> response.content, data |-> files[ret.val].data, path |-> ret.val]

\* get_ligand_cif(id, typ) is entered
Call(id, typ) ==
    /\ pc \in {"idle", "done"}
    /\ ncalls < MaxCalls
    /\ ncalls' = ncalls + 1
    /\ pc' = "match"
    /\ ligand_id' = id
    /\ ligand_type' = typ
    /\ ligand_dir' = Unbound
    /\ ligand_cif_path' = <<>>
    /\ response' = NoResponse
    /\ ligand_cif_file' = <<>>
    /\ ret' = NoPath
    /\ exc' = "None"
    /\ stdout' = <<>>
    /\ raised' = "None"
    /\ requests' = <<>>
    /\ events' = <<>>
    /\ files0' = files
    /\ lastOk' = IF pc = "done" /\ ~ret.isNone THEN [lastOk EXCEPT ![ligand_id] = FinishedFetch] ELSE lastOk
    /\ UNCHANGED <<files, torn>>

\* match ligand_type.value: ... (no default case)
Match ==
    /\ pc = "match"
    /\ IF ~ligand_type.hasValue
         THEN Raise("AttributeError", FALSE) /\ UNCHANGED ligand_dir
         ELSE IF ligand_type.value \in {CCD.value, PRD.value, CLC.value} /\ ligand_id = <<>>
                THEN Raise("IndexError", FALSE) /\ UNCHANGED ligand_dir
                ELSE /\ ligand_dir' = (IF ligand_id = <<>> THEN Unbound ELSE LigandDir(ligand_id, ligand_type.value))
                     /\ pc' = "try"
                     /\ UNCHANGED <<exc, raised>>
    /\ UNCHANGED <<ligand_id, ligand_type, ligand_cif_path, response, ligand_cif_file, ret, stdout, files, requests, events, files0, lastOk, torn, ncalls>>

\* ligand_cif_path = os.path.join(PDBECHEM_URL, ligand_dir, f"{ligand_id}.cif")
BuildPath ==
    /\ pc = "try"
    /\ IF ~ligand_dir.bound
         THEN Raise("UnboundLocalError", TRUE) /\ UNCHANGED ligand_cif_path
         ELSE /\ ligand_cif_path' = LigandCifPath(ligand_dir.val, ligand_id)
              /\ pc' = "get"
              /\ UNCHANGED <<exc, raised>>
    /\ UNCHANGED <<ligand_id, ligand_type, ligand_dir, response, ligand_cif_file, ret, stdout, files, requests, events, files0, lastOk, torn, ncalls>>

\* mutant: a non-success answer is requested once more
GetWithRetry ==
    /\ pc = "get"
    /\ requests' = Append(requests, ligand_cif_path)
    /\ events' = Append(events, "GET")
    /\ \E r \in Responses :
         /\ response' = r
         /\ pc' = IF ~StatusOk(r.status) /\ Len(requests) = 0 THEN "get" ELSE "assert"
    /\ UNCHANGED <<exc, raised>>
    /\ UNCHANGED <<ligand_id, ligand_type, ligand_dir, ligand_cif_path, ligand_cif_file, ret, stdout, files, files0, lastOk, torn, ncalls>>

\* response = requests.get(ligand_cif_path)
Get ==
    /\ pc = "get"
    /\ requests' = Append(requests, ligand_cif_path)
    /\ events' = Append(events, "GET")
    /\ \/ /\ \E r \in Responses : response' = r
          /\ pc' = "assert"
          /\ UNCHANGED <<exc, raised>>
       \/ /\ Raise("ConnectionError", TRUE)
          /\ UNCHANGED response
    /\ UNCHANGED <<ligand_id, ligand_type, ligand_dir, ligand_cif_path, ligand_cif_file, ret, stdout, files, files0, lastOk, torn, ncalls>>

\* assert response.status_code == 200
AssertStatus ==
    /\ pc = "assert"
    /\ IF StatusOk(response.status)
         THEN pc' = "open" /\ UNCHANGED <<exc, raised>>
         ELSE Raise("AssertionError", TRUE)
    /\ UNCHANGED <<ligand_id, ligand_type, ligand_dir, ligand_cif_path, response, ligand_cif_file, ret, stdout, files, requests, events, files0, lastOk, torn, ncalls>>

\* ligand_cif_file = os.path.join(os.getcwd(), f"{ligand_id}.cif")
\* with open(ligand_cif_file, "wb") as fh:
Open ==
    /\ pc = "open"
    /\ ligand_cif_file' = LigandCifFile(ligand_id)
    /\ \/ /\ files' = [files EXCEPT ![ligand_cif_file'] = OpenWb(@)]
          /\ events' = Append(events, "OPEN")
          /\ pc' = "write"
          /\ UNCHANGED <<exc, raised>>
       \/ /\ Raise("OSError", TRUE)
          /\ UNCHANGED <<files, events>>
    /\ UNCHANGED <<ligand_id, ligand_type, ligand_dir, ligand_cif_path, response, ret, stdout, requests, files0, lastOk, torn, ncalls>>

\* fh.write(response.content), and the close that ends the with block
Write ==
    /\ pc = "write"
    /\ events' = Append(events, "WRITE")
    /\ \/ /\ files' = [files EXCEPT ![ligand_cif_file] = FhWrite(@, response.content)]
          /\ torn' = torn \ {ligand_id}
          /\ pc' = "return"
          /\ UNCHANGED <<exc, raised>>
       \/ /\ \E part \in StrictPrefixes(response.content) : files' = [files EXCEPT ![ligand_cif_file] = [exists |-> TRUE, data |-> @.data \o part]]
          /\ torn' = torn \cup {ligand_id}
          /\ Raise("OSError", TRUE)
    /\ UNCHANGED <<ligand_id, ligand_type, ligand_dir, ligand_cif_path, response, ligand_cif_file, ret, stdout, requests, files0, lastOk, ncalls>>

\* return ligand_cif_file
Return ==
    /\ pc = "return"
    /\ ret' = [isNone |-> FALSE, val |-> ligand_cif_file]
    /\ pc' = "done"
    /\ UNCHANGED <<ligand_id, ligand_type, ligand_dir, ligand_cif_path, response, ligand_cif_file, exc, stdout, files, raised, requests, events, files0, lastOk, torn, ncalls>>

\* mutant: the handler also removes the local file
ExceptWithCleanup ==
    /\ pc = "except"
    /\ stdout' = Append(stdout, Diagnostic(ligand_id, ligand_type))
    /\ files' = [files EXCEPT ![LigandCifFile(ligand_id)] = NoFile]
    /\ pc' = "done"
    /\ UNCHANGED <<ligand_id, ligand_type, ligand_dir, ligand_cif_path, response, ligand_cif_file, ret, exc, raised, requests, events, files0, lastOk, torn, ncalls>>

\* except AssertionError: print(...); the function then returns None
Except ==
    /\ pc = "except"
    /\ stdout' = Append(stdout, Diagnostic(ligand_id, ligand_type))
    /\ pc' = "done"
    /\ UNCHANGED <<ligand_id, ligand_type, ligand_dir, ligand_cif_path, response, ligand_cif_file, ret, exc, files, raised, requests, events, files0, lastOk, torn, ncalls>>

CallAny == \E id \in IdArgs, typ \in TypeArgs : Call(id, typ)

Next == CallAny \/ Match \/ BuildPath \/ Get \/ AssertStatus \/ Open \/ Write \/ Return \/ Except

Spec == Init /\ [][Next]_vars

\* ---- vocabulary of the properties ---------------------------------------
\* positions of the separators of a path
SepPositions(s) == {i \in 1..Len(s) : s[i] = "/"}

\* position of the k-th separator
NthSep(s, k) == CHOOSE i \in SepPositions(s) : Cardinality({j \in SepPositions(s) : j < i}) = k - 1

\* str.split("/")
Components(s) == LET n == Cardinality(SepPositions(s)) IN [k \in 1..(n + 1) |-> SubSeq(s, (IF k = 1 THEN 1 ELSE NthSep(s, k - 1) + 1), (IF k = n + 1 THEN Len(s) ELSE NthSep(s, k) - 1))]

Sep == <<"/">>

DotCif == <<".", "c", "i", "f">>

CategoryTag(name) == CASE name = "CCD" -> <<"c", "c", "d">> [] name = "PRD" -> <<"p", "r", "d">> [] name = "CLC" -> <<"c", "l", "c">> [] OTHER -> <<>>

FirstChar(id) == <<id[1]>>

LastChar(id) == <<id[Len(id)]>>

ExpectedShard(id, typ) == IF typ.name = "CCD" THEN FirstChar(id) ELSE LastChar(id)

ExpectedUrl(id, typ) == PDBECHEM_URL \o Sep \o CategoryTag(typ.name) \o Sep \o ExpectedShard(id, typ) \o Sep \o id \o Sep \o id \o DotCif

ExpectedFile(id) == CWD \o Sep \o id \o DotCif

Done == pc = "done"

ValidArgs == ligand_type \in ligandType /\ ligand_id # <<>>

GotStatus == response.received

Success == GotStatus /\ response.status = 200

NonSuccess == GotStatus /\ response.status # 200

\* the most recent successful fetch of id, the finished call included
MostRecentOk(id) == IF Done /\ ~ret.isNone /\ ligand_id = id THEN FinishedFetch ELSE lastOk[id]

\* ---- C1 ------------------------------------------------------------------
\* C1: for every non-empty identifier, the shard directory of the derived
\* ligand_dir (its second component) is the first character of the identifier
\* for CCD and the last character for PRD and CLC, the character unchanged.
C1_Shard == (pc \notin {"idle", "match"} /\ ValidArgs) => (ligand_dir.bound /\ Len(Components(ligand_dir.val)) = 3 /\ Components(ligand_dir.val)[2] = (IF ligand_type = CCD THEN FirstChar(ligand_id) ELSE LastChar(ligand_id)))

C1_Witness == pc = "get" /\ ligand_type = PRD /\ ligand_id = <<"H", "e">> /\ Components(ligand_dir.val)[2] = <<"e">>

\* ---- C2 ------------------------------------------------------------------
\* C2: every URL a call requests is exactly
\* <base-url>/<category>/<shard>/<identifier>/<identifier>.cif, computed from
\* the call's two arguments alone, whatever fetches were made before.
C2_Url == (ligand_cif_path # <<>> => (ValidArgs /\ ligand_cif_path = ExpectedUrl(ligand_id, ligand_type))) /\ (\A i \in 1..Len(requests) : requests[i] = ExpectedUrl(ligand_id, ligand_type))

C2_Witness == ncalls = 2 /\ lastOk[<<"e", "H">>].some /\ ligand_id = <<"e", "H">> /\ ligand_type = CLC /\ Len(requests) = 1 /\ Components(requests[1])[9] = <<"H">>

C4_NonSuccess == NonSuccess => (files = files0 /\ exc = "None" /\ ret.isNone /\ pc \in {"assert", "except", "done"} /\ (Done => (Len(stdout) = 1 /\ stdout[1] = Diagnostic(ligand_id, ligand_type) /\ stdout[1][2] = ligand_id /\ stdout[1][4][3] = ligand_type.name)))

C4_Witness == Done /\ NonSuccess /\ response.status = 404 /\ ~files[ExpectedFile(ligand_id)].exists /\ Len(stdout) = 1 /\ ret.isNone

\* ---- C5 ------------------------------------------------------------------
\* C5: a call whose category is none of CCD, PRD, CLC issues no GET and
\* touches no file, and it ends with an exception and without a path.
C5_BadCategory == (pc # "idle" /\ ligand_type \notin ligandType) => (requests = <<>> /\ events = <<>> /\ ~GotStatus /\ files = files0 /\ pc \in {"match", "try", "done"} /\ (Done => (exc \in {"AttributeError", "UnboundLocalError"} /\ ret.isNone)))

C5_Witness == Done /\ ligand_type.name = "XYZ" /\ ligand_id = <<"H", "e">> /\ exc = "UnboundLocalError" /\ requests = <<>>

\* ---- C6 ------------------------------------------------------------------
\* C6 as stated: between calls, <identifier>.cif holds the payload of the most
\* recent successful fetch of the identifier.
C6_Original == (pc \in {"idle", "done"}) => (\A id \in Identifiers : MostRecentOk(id).some => files[ExpectedFile(id)] = [exists |-> TRUE, data |-> MostRecentOk(id).payload])

\* C6 amended: between calls, <identifier>.cif holds the payload of the most
\* recent successful fetch of the identifier unless a later fetch of it failed
\* while writing the file; an existing file is overwritten, not appended to.
C6_Amended == (pc \in {"idle", "done"}) => (\A id \in Identifiers : (MostRecentOk(id).some /\ id \notin torn) => files[ExpectedFile(id)] = [exists |-> TRUE, data |-> MostRecentOk(id).payload])

C6_Witness == Done /\ ~ret.isNone /\ exc = "None" /\ files0[ret.val].exists /\ files0[ret.val].data = <<7, 8>> /\ response.content = <<7>> /\ files[ret.val].data = <<7>>

\* ---- C7 ------------------------------------------------------------------
\* C7: a successful fetch that is served the payload the previous successful
\* fetch of the identifier was served returns the same path and leaves the
\* same bytes in the file.
C7_Idempotent == (Done /\ ~ret.isNone /\ lastOk[ligand_id].some /\ lastOk[ligand_id].payload = response.content) => (ret.val = lastOk[ligand_id].path /\ files[ret.val].data = lastOk[ligand_id].data /\ files[ret.val].exists)

C7_Witness == Done /\ ~ret.isNone /\ lastOk[ligand_id].some /\ lastOk[ligand_id].payload = response.content /\ response.content = <<7, 8>> /\ files[ret.val].data = <<7, 8>>

\* ---- C8 ------------------------------------------------------------------
\* C8: a call issues at most one GET, and exactly one once it has a response
\* or has finished with valid arguments; only status 200 leads to the file,
\* and the file is opened and written only after that GET.
C8_OneGet == /\ Len(requests) <= 1
             /\ (GotStatus \/ pc \in {"assert", "open", "write", "return", "except"}) => Len(requests) = 1
             /\ (Done /\ ValidArgs) => Len(requests) = 1
             /\ events \in {<<>>, <<"GET">>, <<"GET", "OPEN">>, <<"GET", "OPEN", "WRITE">>}
             /\ Len(events) >= 2 => Success
             /\ pc \in {"open", "write", "return"} => Success
             /\ files # files0 => (Success /\ Len(events) >= 2)

C8_Witness == Done /\ response.status = 206 /\ Len(requests) = 1 /\ events = <<"GET">> /\ files = files0

\* ---- C9 ------------------------------------------------------------------
\* C9: a finished call has printed the diagnostic only for a non-success
\* status, and then raises nothing; any other failure (empty identifier,
\* unrecognized category, error raised by the GET, by open or by write) leaves
\* the call as an exception, nothing printed and no path returned.
C9_Propagation == Done => (/\ raised \notin {"None", "AssertionError"} => (exc = raised /\ stdout = <<>> /\ ret.isNone)
                           /\ raised = "AssertionError" => (exc = "None" /\ NonSuccess /\ Len(stdout) = 1)
                           /\ stdout # <<>> => (raised = "AssertionError" /\ NonSuccess)
                           /\ ~ValidArgs => exc \in {"IndexError", "AttributeError", "UnboundLocalError"}
                           /\ raised = "None" => (exc = "None" /\ ~ret.isNone))

C9_Witness == Done /\ raised = "ConnectionError" /\ exc = "ConnectionError" /\ Len(requests) = 1 /\ stdout = <<>>

\* ---- C10 -----------------------------------------------------------------
\* C10: a call changes no local file other than <id>.cif in the working
\* directory, and a call that got a non-success status changes none, so a file
\* left by an earlier successful fetch keeps its content.
C10_Frame == (pc # "idle") => (/\ \A f \in FilePaths : f # ExpectedFile(ligand_id) => files[f] = files0[f]
                               /\ NonSuccess => files = files0
                               /\ (Done /\ NonSuccess /\ lastOk[ligand_id].some /\ ligand_id \notin torn) => files[ExpectedFile(ligand_id)].data = lastOk[ligand_id].payload)

C10_Witness == Done /\ NonSuccess /\ lastOk[ligand_id].some /\ files[ExpectedFile(ligand_id)] = [exists |-> TRUE, data |-> <<7, 8>>] /\ files[OtherFile].data = <<9>>

====
